---- MODULE Spec2Model ----
(***************************************************************************)
(* create-lightbear-app: the sequential setup functions of the scaffolding *)
(* CLI, modelled as state machines over the generated file tree, the       *)
(* child processes they spawn and the error they raise.                    *)
(*                                                                         *)
(* Spec      the feature orchestrator setupAdditionalFeatures and the      *)
(*           feature setups it awaits (features/*.ts).                     *)
(* SpecFw    one call of setup(context) of a framework setup service       *)
(*           (utils/framework/*.ts).                                       *)
(* SpecCLI   the process of the CLI entry point (cli.ts).                  *)
(* SpecMono  setupMonorepo followed by setupUILibrary (monorepo/index.ts,  *)
(*           utils/frontend/ui-library.ts).                                *)
(***************************************************************************)
EXTENDS Integers, Sequences, FiniteSets, TLC

VARIABLES
    answers,      \* the ProjectAnswers record handed to every setup function
    pc,           \* position of setupAdditionalFeatures
    featIdx,      \* index of the for..of loop over `features`
    stage,        \* position inside the feature function being awaited
    subIdx,       \* index of the inner loop / switch sequence of a feature
    failure,      \* message of the error in flight (<<>> when none)
    spinnerText,  \* spinner.text
    started,      \* features whose fn() was called, in call order
    finished,     \* features whose promise resolved, in order
    uiLog,        \* start/end events of the sub-setups of setupUITools
    files,        \* paths written below the project
    envExample,   \* the app's .env.example: [exists, content]
    scripts,      \* scripts of the app's package.json
    ciWorkflow,   \* names of the steps of .github/workflows/ci.yml (<<>> until written)
    procs,        \* child processes spawned so far, with their options
    service,      \* the framework setup service whose setup() is called
    fwPc,         \* position of setup()
    fwIdx,        \* index of the next step of setupStandard / setupWithNx
    result,       \* the SetupResult returned by setup()
    cliPc,        \* position of the CLI process
    argv,         \* command-line arguments given to the CLI
    runSteps,     \* awaited steps runCLI has completed
    exitCode,     \* exit status of the process once it has exited
    runFailed,    \* the kind of failure the run met ("none" when none)
    cliLog,       \* what the process logged to the console
    monoPc,       \* position of setupMonorepo
    monoIdx,      \* index of the next step of the function setupMonorepo awaits
    called,       \* the setup functions setupMonorepo has called, in call order
    libPc,        \* position of setupUILibrary
    libIdx,       \* index of the next step of setupUILibrary
    attempted,    \* components `shadcn add` was run for, in order
    libResult     \* the SetupResult returned by setupUILibrary

featureVars == <<pc, featIdx, stage, subIdx, spinnerText, started, finished,
                 uiLog, envExample, scripts, ciWorkflow>>
frameworkVars == <<service, fwPc, fwIdx, result>>
cliVars == <<cliPc, argv, runSteps, exitCode, runFailed, cliLog>>
monorepoVars == <<monoPc, monoIdx, called, libPc, libIdx, attempted, libResult>>

vars == <<answers, failure, files, procs, featureVars, frameworkVars, cliVars,
          monorepoVars>>

-----------------------------------------------------------------------------
(* Bounds and input domains *)

\* at most this many features are selected by the answers of one run
MaxSelected == 3

PackageManagers == {"npm", "pnpm"}
Authentications == {"none", "clerk", "nextauth"}
OrmDatabases == {"none", "prisma", "drizzle", "kysely"}
DatabaseProviders == {"none", "neon", "supabase", "planetscale"}
Payments == {"none", "stripe"}
TestingToolLists ==
    {<<>>, <<"none">>, <<"jest">>, <<"playwright">>, <<"react-testing-library">>,
     <<"jest", "playwright">>, <<"react-testing-library", "jest">>}
UITools == {"none", "storybook", "storybook-chromatic", "storybook-figma",
            "react-devtools", "complete-suite"}
Realtimes == {"none", "liveblocks", "ably"}
CicdDevOps == SUBSET {"docker", "github-actions"}
DeveloperExperiences == SUBSET {"husky"}
Frontends == {"nextjs-app"}

NoTimeout == 0
NoError == <<>>
NoResult == [success |-> FALSE, message |-> <<>>]
NoExit == -1

\* the parts of the state a specification does not use stay as they start
FeaturesIdle ==
    /\ pc = "idle" /\ featIdx = 1 /\ stage = "idle" /\ subIdx = 1
    /\ spinnerText = "" /\ started = <<>> /\ finished = <<>> /\ uiLog = <<>>
    /\ envExample = [exists |-> FALSE, content |-> <<>>] /\ scripts = {}
    /\ ciWorkflow = <<>>

FrameworkIdle ==
    service = "none" /\ fwPc = "idle" /\ fwIdx = 1 /\ result = NoResult

CLIIdle ==
    /\ cliPc = "idle" /\ argv = "" /\ runSteps = 0 /\ exitCode = NoExit
    /\ runFailed = "none" /\ cliLog = <<>>

MonorepoIdle ==
    /\ monoPc = "idle" /\ monoIdx = 1 /\ called = <<>>
    /\ libPc = "idle" /\ libIdx = 1 /\ attempted = <<>> /\ libResult = NoResult

Includes(seq, x) == \E i \in 1..Len(seq) : seq[i] = x

-----------------------------------------------------------------------------
(* setupAdditionalFeatures: the features table *)

Features ==
    << [id |-> "auth",     name |-> "Setting up authentication..."],
       [id |-> "database", name |-> "Setting up database..."],
       [id |-> "stripe",   name |-> "Setting up Stripe integration..."],
       [id |-> "testing",  name |-> "Setting up testing tools..."],
       [id |-> "uitools",  name |-> "Setting up UI development tools..."],
       [id |-> "pwa",      name |-> "Setting up Progressive Web App (PWA)..."],
       [id |-> "realtime", name |-> "Setting up realtime collaboration..."],
       [id |-> "docker",   name |-> "Setting up Docker configuration..."],
       [id |-> "github",   name |-> "Setting up GitHub Actions..."],
       [id |-> "husky",    name |-> "Setting up Husky..."] >>

NumFeatures == Len(Features)

Condition(a, id) ==
    CASE id = "auth"     -> a.authentication # "none"
      [] id = "database" -> a.ormDatabase # "none" /\ a.databaseProvider # "none"
      [] id = "stripe"   -> a.payments = "stripe"
      [] id = "testing"  -> Len(a.testingTools) > 0 /\ ~Includes(a.testingTools, "none")
      [] id = "uitools"  -> a.uiTools # "none"
      [] id = "pwa"      -> a.progressiveWebApp = TRUE
      [] id = "realtime" -> a.realtimeCollaboration # "none"
      [] id = "docker"   -> "docker" \in a.cicdDevOps
      [] id = "github"   -> "github-actions" \in a.cicdDevOps
      [] id = "husky"    -> "husky" \in a.developerExperience

FirstStage(id) ==
    CASE id = "auth"     -> "auth:install"
      [] id = "database" -> "db:check"
      [] id = "testing"  -> "testing:tool"
      [] id = "uitools"  -> "ui:switch"
      [] id = "realtime" -> "rt:install"
      [] id = "github"   -> "github:write"
      [] OTHER           -> id

SelectedFeatures(a) == {i \in 1..NumFeatures : Condition(a, Features[i].id)}

AnswerSpace ==
    [packageManager : PackageManagers,
     frontend : Frontends,
     authentication : Authentications,
     ormDatabase : OrmDatabases,
     databaseProvider : DatabaseProviders,
     payments : Payments,
     testingTools : TestingToolLists,
     uiTools : UITools,
     progressiveWebApp : BOOLEAN,
     realtimeCollaboration : Realtimes,
     cicdDevOps : CicdDevOps,
     developerExperience : DeveloperExperiences]

-----------------------------------------------------------------------------
(* Helpers shared by the feature bodies *)

\* a rejected promise travelling up to the orchestrator's catch
Raise(msg) ==
    /\ stage' = "rejected"
    /\ failure' = msg

Proc(cmd, args, timeout) == [cmd |-> cmd, args |-> args, timeout |-> timeout]

Spawn(cmd, args, timeout) == procs' = procs \cup {Proc(cmd, args, timeout)}

\* NpmStrategy / YarnStrategy / PnpmStrategy / BunStrategy: install, installDev
InstallArgs(pm, dev) ==
    IF dev THEN (IF pm = "npm" THEN "install -D" ELSE IF pm = "bun" THEN "add -d" ELSE "add -D")
           ELSE (IF pm = "npm" THEN "install" ELSE "add")

DefaultInstallTimeout == 180000

\* PackageManagerService.installPackages -> strategy.executeInstall
InstallPackages(pm, dev) == Proc(pm, InstallArgs(pm, dev), DefaultInstallTimeout)

\* the first n paths of a list of writes that are made one after another
Written(paths, n) == {paths[i] : i \in 1..n}

Init ==
    /\ answers \in AnswerSpace
    /\ Cardinality(SelectedFeatures(answers)) <= MaxSelected
    /\ pc = "loop"
    /\ featIdx = 1
    /\ stage = "idle"
    /\ subIdx = 1
    /\ failure = NoError
    /\ spinnerText = ""
    /\ started = <<>>
    /\ finished = <<>>
    /\ uiLog = <<>>
    /\ files = {}
    /\ envExample = [exists |-> FALSE, content |-> <<>>]
    /\ scripts = {}
    /\ ciWorkflow = <<>>
    /\ procs = {}
    /\ FrameworkIdle /\ CLIIdle /\ MonorepoIdle

-----------------------------------------------------------------------------
(* setupAdditionalFeatures: the loop *)

LoopSkip ==
    /\ pc = "loop"
    /\ featIdx <= NumFeatures
    /\ ~Condition(answers, Features[featIdx].id)
    /\ featIdx' = featIdx + 1
    /\ UNCHANGED <<answers, pc, stage, subIdx, failure, spinnerText, started,
                   finished, uiLog, files, envExample, scripts, procs>>
    /\ UNCHANGED <<ciWorkflow, frameworkVars, cliVars, monorepoVars>>

\* LoopStart without the `if (!feature.condition) continue` guard
LoopStartUnconditional ==
    /\ pc = "loop"
    /\ featIdx <= NumFeatures
    /\ spinnerText' = Features[featIdx].name
    /\ started' = Append(started, Features[featIdx].id)
    /\ pc' = "await"
    /\ stage' = FirstStage(Features[featIdx].id)
    /\ subIdx' = 1
    /\ UNCHANGED <<answers, featIdx, failure, finished, uiLog, files,
                   envExample, scripts, procs>>
    /\ UNCHANGED <<ciWorkflow, frameworkVars, cliVars, monorepoVars>>

LoopStart ==
    /\ pc = "loop"
    /\ featIdx <= NumFeatures
    /\ Condition(answers, Features[featIdx].id)
    /\ spinnerText' = Features[featIdx].name
    /\ started' = Append(started, Features[featIdx].id)
    /\ pc' = "await"
    /\ stage' = FirstStage(Features[featIdx].id)
    /\ subIdx' = 1
    /\ UNCHANGED <<answers, featIdx, failure, finished, uiLog, files,
                   envExample, scripts, procs>>
    /\ UNCHANGED <<ciWorkflow, frameworkVars, cliVars, monorepoVars>>

LoopResume ==
    /\ pc = "await"
    /\ stage = "resolved"
    /\ finished' = Append(finished, Features[featIdx].id)
    /\ featIdx' = featIdx + 1
    /\ pc' = "loop"
    /\ stage' = "idle"
    /\ UNCHANGED <<answers, subIdx, failure, spinnerText, started, uiLog,
                   files, envExample, scripts, procs>>
    /\ UNCHANGED <<ciWorkflow, frameworkVars, cliVars, monorepoVars>>

\* LoopCatch that logs the error and goes on with the next feature
LoopCatchContinue ==
    /\ pc = "await"
    /\ stage = "rejected"
    /\ featIdx' = featIdx + 1
    /\ pc' = "loop"
    /\ stage' = "idle"
    /\ UNCHANGED <<answers, failure, subIdx, spinnerText, started, finished,
                   uiLog, files, envExample, scripts, procs>>
    /\ UNCHANGED <<ciWorkflow, frameworkVars, cliVars, monorepoVars>>

\* LoopCatch that removes what the run generated before re-throwing
LoopCatchRollback ==
    /\ pc = "await"
    /\ stage = "rejected"
    /\ failure' = <<"Failed to setup ", Features[featIdx].name, ": ">> \o failure
    /\ pc' = "thrown"
    /\ stage' = "idle"
    /\ files' = {}
    /\ envExample' = [exists |-> FALSE, content |-> <<>>]
    /\ UNCHANGED <<answers, featIdx, subIdx, spinnerText, started, finished,
                   uiLog, scripts, procs>>
    /\ UNCHANGED <<ciWorkflow, frameworkVars, cliVars, monorepoVars>>

LoopCatch ==
    /\ pc = "await"
    /\ stage = "rejected"
    /\ failure' = <<"Failed to setup ", Features[featIdx].name, ": ">> \o failure
    /\ pc' = "thrown"
    /\ stage' = "idle"
    /\ UNCHANGED <<answers, featIdx, subIdx, spinnerText, started, finished,
                   uiLog, files, envExample, scripts, procs>>
    /\ UNCHANGED <<ciWorkflow, frameworkVars, cliVars, monorepoVars>>

LoopReturn ==
    /\ pc = "loop"
    /\ featIdx > NumFeatures
    /\ pc' = "returned"
    /\ UNCHANGED <<answers, featIdx, stage, subIdx, failure, spinnerText,
                   started, finished, uiLog, files, envExample, scripts, procs>>
    /\ UNCHANGED <<ciWorkflow, frameworkVars, cliVars, monorepoVars>>

-----------------------------------------------------------------------------
(* .env.example updates *)

\* ways one updateEnvironmentWith* call can go: the happy path, readFile
\* throwing, the first writeFile throwing (both recovered by the fallback
\* write in the catch), or the fallback write throwing as well
UpdateEnvOutcomes(env) ==
    IF env.exists THEN {"ok", "readFails", "writeFails", "fallbackFails"}
                  ELSE {"ok", "writeFails", "fallbackFails"}

\* UpdateEnvironmentWith that writes the block in front of the existing content
UpdateEnvironmentWithPrepend(env, block, outcome) ==
    CASE outcome = "ok" ->
            [exists |-> TRUE,
             content |-> <<block>> \o (IF env.exists THEN env.content ELSE <<>>)]
      [] outcome \in {"readFails", "writeFails"} ->
            [exists |-> TRUE, content |-> <<block>>]
      [] OTHER -> env

UpdateEnvironmentWith(env, block, outcome) ==
    CASE outcome = "ok" ->
            [exists |-> TRUE,
             content |-> (IF env.exists THEN env.content ELSE <<>>) \o <<block>>]
      [] outcome \in {"readFails", "writeFails"} ->
            [exists |-> TRUE, content |-> <<block>>]
      [] OTHER -> env

\* content written by createEnvironmentTemplate for a provider
DatabaseEnvBlock(provider) ==
    CASE provider = "neon"        -> "env:neon"
      [] provider = "supabase"    -> "env:supabase"
      [] provider = "planetscale" -> "env:planetscale"
      [] OTHER                    -> "env:database"

-----------------------------------------------------------------------------
(* features/auth.ts *)

AuthPrefix(a) ==
    IF a.authentication = "clerk" THEN <<"Failed to setup Clerk: ">>
                                  ELSE <<"Failed to setup NextAuth.js: ">>

AuthFiles(a) ==
    IF a.authentication = "clerk"
    THEN <<"app:src/lib/auth.ts", "app:middleware.ts",
           "app:src/components/auth/AuthButton.tsx",
           "app:src/components/auth/ProtectedRoute.tsx",
           "app:src/app/sign-in/page.tsx", "app:src/app/sign-up/page.tsx",
           "app:src/app/layout-clerk-template.tsx">>
    ELSE <<"app:src/lib/auth.ts", "app:middleware.ts",
           "app:src/app/api/auth/[...nextauth]/route.ts",
           "app:src/components/auth/SignInButton.tsx",
           "app:src/app/auth/signin/page.tsx">>

AuthEnvBlock(a) ==
    IF a.authentication = "clerk" THEN "env:clerk" ELSE "env:nextauth"

\* setupClerkAuth / setupNextAuth: execa(packageManager, ["add", ...deps])
AuthInstall ==
    /\ pc = "await" /\ stage = "auth:install"
    /\ Spawn(answers.packageManager, "add", NoTimeout)
    /\ \E ok \in BOOLEAN :
          IF ok THEN stage' = "auth:files" /\ UNCHANGED failure
                ELSE Raise(AuthPrefix(answers) \o <<"Command failed">>)
    /\ UNCHANGED <<answers, pc, featIdx, subIdx, spinnerText, started,
                   finished, uiLog, files, envExample, scripts>>
    /\ UNCHANGED <<ciWorkflow, frameworkVars, cliVars, monorepoVars>>

\* create*Config, create*Middleware, create*Components, ...: the writes are
\* made one after another and any of them may throw
AuthCreateFiles ==
    /\ pc = "await" /\ stage = "auth:files"
    /\ \E n \in 0..Len(AuthFiles(answers)) :
          /\ files' = files \cup Written(AuthFiles(answers), n)
          /\ IF n = Len(AuthFiles(answers))
             THEN stage' = "auth:env" /\ UNCHANGED failure
             ELSE Raise(AuthPrefix(answers) \o <<"write failed">>)
    /\ UNCHANGED <<answers, pc, featIdx, subIdx, spinnerText, started,
                   finished, uiLog, envExample, scripts, procs>>
    /\ UNCHANGED <<ciWorkflow, frameworkVars, cliVars, monorepoVars>>

\* updateEnvironmentWithClerk / updateEnvironmentWithNextAuth, then return
AuthUpdateEnv ==
    /\ pc = "await" /\ stage = "auth:env"
    /\ \E o \in UpdateEnvOutcomes(envExample) :
          /\ envExample' = UpdateEnvironmentWith(envExample, AuthEnvBlock(answers), o)
          /\ IF o = "fallbackFails"
             THEN Raise(AuthPrefix(answers) \o <<"write failed">>)
             ELSE stage' = "resolved" /\ UNCHANGED failure
    /\ UNCHANGED <<answers, pc, featIdx, subIdx, spinnerText, started,
                   finished, uiLog, files, scripts, procs>>
    /\ UNCHANGED <<ciWorkflow, frameworkVars, cliVars, monorepoVars>>

-----------------------------------------------------------------------------
(* features/database.ts *)

OrmPrefix(a) ==
    CASE a.ormDatabase = "prisma"  -> <<"Failed to initialize Prisma: ">>
      [] a.ormDatabase = "drizzle" -> <<"Failed to initialize Drizzle: ">>
      [] OTHER                     -> <<"Failed to initialize Kysely: ">>

OrmFiles(a) ==
    CASE a.ormDatabase = "prisma" ->
            <<"app:prisma/schema.prisma", "app:src/lib/prisma.ts">>
      [] a.ormDatabase = "drizzle" ->
            <<"app:src/db/schema.ts", "app:drizzle.config.ts", "app:src/db/index.ts">>
      [] a.ormDatabase = "kysely" ->
            <<"app:src/db/types.ts", "app:src/db/index.ts",
              "app:src/db/migrations/001_create_users_table.ts",
              "app:src/db/migrate.ts">>
      [] OTHER -> <<>>

\* SetupDatabase whose guard tests only answers.ormDatabase
SetupDatabaseOrmOnly ==
    /\ pc = "await" /\ stage = "db:check"
    /\ stage' = IF answers.ormDatabase = "none"
                THEN "resolved"
                ELSE IF answers.ormDatabase = "prisma" THEN "db:install"
                ELSE "db:files"
    /\ UNCHANGED <<answers, pc, featIdx, subIdx, failure, spinnerText, started,
                   finished, uiLog, files, envExample, scripts, procs>>
    /\ UNCHANGED <<ciWorkflow, frameworkVars, cliVars, monorepoVars>>

\* setupDatabase: the "none" guard at the top of the function
SetupDatabase ==
    /\ pc = "await" /\ stage = "db:check"
    /\ stage' = IF answers.ormDatabase = "none" \/ answers.databaseProvider = "none"
                THEN "resolved"
                ELSE IF answers.ormDatabase = "prisma" THEN "db:install"
                ELSE "db:files"
    /\ UNCHANGED <<answers, pc, featIdx, subIdx, failure, spinnerText, started,
                   finished, uiLog, files, envExample, scripts, procs>>
    /\ UNCHANGED <<ciWorkflow, frameworkVars, cliVars, monorepoVars>>

\* setupPrisma: the two packageManagerService.installPackages calls
SetupPrismaInstall ==
    /\ pc = "await" /\ stage = "db:install"
    /\ \E failAt \in 0..2 :
          LET ok == failAt = 0 IN
          /\ procs' = procs \cup {InstallPackages(answers.packageManager, FALSE)}
                          \cup (IF failAt = 1 THEN {}
                                ELSE {InstallPackages(answers.packageManager, TRUE)})
          /\ IF ok THEN stage' = "db:files" /\ UNCHANGED failure
                ELSE Raise(OrmPrefix(answers) \o <<"Failed to install packages">>)
    /\ UNCHANGED <<answers, pc, featIdx, subIdx, spinnerText, started,
                   finished, uiLog, files, envExample, scripts>>
    /\ UNCHANGED <<ciWorkflow, frameworkVars, cliVars, monorepoVars>>

\* setupPrisma / setupDrizzle / setupKysely: the schema and client files
SetupOrmFiles ==
    /\ pc = "await" /\ stage = "db:files"
    /\ \E n \in 0..Len(OrmFiles(answers)) :
          /\ files' = files \cup Written(OrmFiles(answers), n)
          /\ IF n = Len(OrmFiles(answers))
             THEN stage' = "db:env" /\ UNCHANGED failure
             ELSE Raise(OrmPrefix(answers) \o <<"write failed">>)
    /\ UNCHANGED <<answers, pc, featIdx, subIdx, spinnerText, started,
                   finished, uiLog, envExample, scripts, procs>>
    /\ UNCHANGED <<ciWorkflow, frameworkVars, cliVars, monorepoVars>>

\* createEnvironmentTemplate: writeFile(envExamplePath, envContent)
CreateEnvironmentTemplate ==
    /\ pc = "await" /\ stage = "db:env"
    /\ \E ok \in BOOLEAN :
          IF ok
          THEN /\ envExample' = [exists |-> TRUE,
                                 content |-> <<DatabaseEnvBlock(answers.databaseProvider)>>]
               /\ stage' = "resolved" /\ UNCHANGED failure
          ELSE /\ Raise(<<"write failed">>)
               /\ UNCHANGED envExample
    /\ UNCHANGED <<answers, pc, featIdx, subIdx, spinnerText, started,
                   finished, uiLog, files, scripts, procs>>
    /\ UNCHANGED <<ciWorkflow, frameworkVars, cliVars, monorepoVars>>

\* setupDatabase called on its own, with any answers, on a project that may
\* already hold a .env.example and files written by an earlier feature
DbAnswerSpace ==
    {a \in AnswerSpace :
        /\ a.frontend = "nextjs-app" /\ a.authentication \in {"none", "clerk"}
        /\ a.payments = "none" /\ a.testingTools = <<>> /\ a.uiTools = "none"
        /\ a.progressiveWebApp = FALSE /\ a.realtimeCollaboration = "none"
        /\ a.cicdDevOps = {} /\ a.developerExperience = {}}

InitDb ==
    /\ answers \in DbAnswerSpace
    /\ pc = "await"
    /\ featIdx = 2
    /\ stage = "db:check"
    /\ subIdx = 1
    /\ failure = NoError
    /\ spinnerText = Features[2].name
    /\ started = <<"database">>
    /\ finished = <<>>
    /\ uiLog = <<>>
    /\ IF answers.authentication = "clerk"
          THEN /\ files = Written(AuthFiles(answers), Len(AuthFiles(answers)))
               /\ envExample = [exists |-> TRUE, content |-> <<AuthEnvBlock(answers)>>]
          ELSE /\ files = {}
               /\ envExample = [exists |-> FALSE, content |-> <<>>]
    /\ scripts = {}
    /\ ciWorkflow = <<>>
    /\ procs = {}
    /\ FrameworkIdle /\ CLIIdle /\ MonorepoIdle

NextDb ==
    \/ SetupDatabase \/ SetupPrismaInstall \/ SetupOrmFiles
    \/ CreateEnvironmentTemplate

SpecDb == InitDb /\ [][NextDb]_vars

-----------------------------------------------------------------------------
(* features/payments.ts, pwa.ts, docker.ts, git-hooks.ts, storybook.ts:      *)
(* awaited by the orchestrator; each resolves after writing its files or     *)
(* rejects                                                                   *)

SetupOther(id, path) ==
    /\ pc = "await" /\ stage = id
    /\ \E ok \in BOOLEAN :
          IF ok THEN /\ files' = files \cup {path}
                     /\ stage' = "resolved" /\ UNCHANGED failure
                ELSE /\ Raise(<<id, " failed">>)
                     /\ UNCHANGED files
    /\ UNCHANGED <<answers, pc, featIdx, subIdx, spinnerText, started,
                   finished, uiLog, envExample, scripts, procs>>
    /\ UNCHANGED <<ciWorkflow, frameworkVars, cliVars, monorepoVars>>

SetupStripe == SetupOther("stripe", "app:src/lib/stripe.ts")

SetupPWA == SetupOther("pwa", "app:public/manifest.json")

SetupDocker == SetupOther("docker", "root:Dockerfile")

SetupHusky == SetupOther("husky", "root:.husky/pre-commit")

-----------------------------------------------------------------------------
(* features/testing.ts *)

ToolPrefix(tool) ==
    CASE tool = "jest"       -> <<"Failed to setup Jest: ">>
      [] tool = "playwright" -> <<"Failed to setup Playwright: ">>
      [] OTHER               -> <<"Failed to setup React Testing Library: ">>

ToolFiles(tool) ==
    CASE tool = "jest" ->
            <<"app:jest.config.js", "app:jest.setup.js", "app:src/__tests__/example.test.ts">>
      [] tool = "playwright" ->
            <<"app:playwright.config.ts", "app:e2e/example.spec.ts">>
      [] tool = "react-testing-library" ->
            <<"app:src/components/__tests__/example.test.tsx">>
      [] OTHER -> <<>>

\* setupTesting: one iteration of `for (const tool of answers.testingTools)`,
\* i.e. setupJest / setupPlaywright / setupReactTestingLibrary
SetupTestingTool ==
    /\ pc = "await" /\ stage = "testing:tool"
    /\ subIdx <= Len(answers.testingTools)
    /\ LET tool == answers.testingTools[subIdx] IN
       IF tool \notin {"jest", "playwright", "react-testing-library"}
       THEN /\ subIdx' = subIdx + 1
            /\ UNCHANGED <<stage, failure, files, procs>>
       ELSE \E installed \in BOOLEAN, n \in 0..Len(ToolFiles(tool)) :
            /\ procs' = procs \cup {InstallPackages(answers.packageManager, TRUE)}
            /\ IF ~installed
               THEN /\ Raise(ToolPrefix(tool) \o <<"Failed to install packages">>)
                    /\ UNCHANGED <<files, subIdx>>
               ELSE /\ files' = files \cup Written(ToolFiles(tool), n)
                    /\ IF n = Len(ToolFiles(tool))
                       THEN subIdx' = subIdx + 1 /\ UNCHANGED <<stage, failure>>
                       ELSE Raise(ToolPrefix(tool) \o <<"write failed">>)
                            /\ UNCHANGED subIdx
    /\ UNCHANGED <<answers, pc, featIdx, spinnerText, started, finished,
                   uiLog, envExample, scripts>>
    /\ UNCHANGED <<ciWorkflow, frameworkVars, cliVars, monorepoVars>>

\* TestingScripts that adds the combined script as soon as one tool is selected
TestingScriptsAnyTool(tools) ==
    (IF Includes(tools, "jest")
     THEN {<<"test", "jest">>, <<"test:watch", "jest --watch">>,
           <<"test:coverage", "jest --coverage">>}
     ELSE {})
    \cup
    (IF Includes(tools, "playwright")
     THEN {<<"test:e2e", "playwright test">>, <<"test:e2e:ui", "playwright test --ui">>,
           <<"test:e2e:headed", "playwright test --headed">>}
     ELSE {})
    \cup
    (IF Len(tools) > 0 /\ ~Includes(tools, "none")
     THEN {<<"test:all",
             IF Includes(tools, "jest") /\ Includes(tools, "playwright")
             THEN "jest && playwright test"
             ELSE IF Includes(tools, "jest") THEN "jest"
             ELSE IF Includes(tools, "playwright") THEN "playwright test"
             ELSE "">>}
     ELSE {})

\* the scripts updatePackageJsonScripts adds for a testingTools selection
TestingScripts(tools) ==
    (IF Includes(tools, "jest")
     THEN {<<"test", "jest">>, <<"test:watch", "jest --watch">>,
           <<"test:coverage", "jest --coverage">>}
     ELSE {})
    \cup
    (IF Includes(tools, "playwright")
     THEN {<<"test:e2e", "playwright test">>, <<"test:e2e:ui", "playwright test --ui">>,
           <<"test:e2e:headed", "playwright test --headed">>}
     ELSE {})
    \cup
    (IF Len(tools) > 1 /\ ~Includes(tools, "none")
     THEN {<<"test:all",
             IF Includes(tools, "jest") /\ Includes(tools, "playwright")
             THEN "jest && playwright test"
             ELSE IF Includes(tools, "jest") THEN "jest"
             ELSE IF Includes(tools, "playwright") THEN "playwright test"
             ELSE "">>}
     ELSE {})

\* package.json scripts after assigning the pairs of `added` (an assignment
\* replaces the value an existing script had)
AssignScripts(old, added) ==
    {s \in old : ~\E t \in added : t[1] = s[1]} \cup added

\* updatePackageJsonScripts that first drops "none" from answers.testingTools
\* in place
UpdatePackageJsonScriptsInPlace ==
    /\ pc = "await" /\ stage = "testing:tool"
    /\ subIdx > Len(answers.testingTools)
    /\ answers' = [answers EXCEPT !.testingTools = <<"jest">>]
    /\ \E ok \in BOOLEAN :
          scripts' = IF ok THEN AssignScripts(scripts, TestingScripts(answers.testingTools))
                           ELSE scripts
    /\ stage' = "resolved"
    /\ UNCHANGED <<pc, featIdx, subIdx, failure, spinnerText, started,
                   finished, uiLog, files, envExample, procs>>
    /\ UNCHANGED <<ciWorkflow, frameworkVars, cliVars, monorepoVars>>

\* updatePackageJsonScripts: read, modify, write package.json; any error is
\* caught and logged as a warning
UpdatePackageJsonScripts ==
    /\ pc = "await" /\ stage = "testing:tool"
    /\ subIdx > Len(answers.testingTools)
    /\ \E ok \in BOOLEAN :
          scripts' = IF ok THEN AssignScripts(scripts, TestingScripts(answers.testingTools))
                           ELSE scripts
    /\ stage' = "resolved"
    /\ UNCHANGED <<answers, pc, featIdx, subIdx, failure, spinnerText, started,
                   finished, uiLog, files, envExample, procs>>
    /\ UNCHANGED <<ciWorkflow, frameworkVars, cliVars, monorepoVars>>

\* setupTesting called on its own, with any selection of distinct testing
\* tools, on a package.json that may already have scripts
MaxTools == 3

ToolNames == {"jest", "playwright", "react-testing-library", "none"}

ToolSelections ==
    {s \in UNION {[1..n -> ToolNames] : n \in 0..MaxTools} :
        \A i, j \in 1..Len(s) : i # j => s[i] # s[j]}

ExistingScripts ==
    {{}, {<<"dev", "next dev">>},
     {<<"dev", "next dev">>, <<"test:all", "npm run lint">>}}

InitTesting ==
    /\ answers \in [packageManager : {"npm"}, frontend : Frontends,
                    authentication : {"none"}, ormDatabase : {"none"},
                    databaseProvider : {"none"}, payments : {"none"},
                    testingTools : ToolSelections, uiTools : {"none"},
                    progressiveWebApp : {FALSE}, realtimeCollaboration : {"none"},
                    cicdDevOps : {{}}, developerExperience : {{}}]
    /\ pc = "await"
    /\ featIdx = 4
    /\ stage = "testing:tool"
    /\ subIdx = 1
    /\ failure = NoError
    /\ spinnerText = Features[4].name
    /\ started = <<"testing">>
    /\ finished = <<>>
    /\ uiLog = <<>>
    /\ files = {}
    /\ envExample = [exists |-> FALSE, content |-> <<>>]
    /\ scripts \in ExistingScripts
    /\ ciWorkflow = <<>>
    /\ procs = {}
    /\ FrameworkIdle /\ CLIIdle /\ MonorepoIdle

NextTesting == SetupTestingTool \/ UpdatePackageJsonScripts

SpecTesting == InitTesting /\ [][NextTesting]_vars

-----------------------------------------------------------------------------
(* features/ui-tools.ts *)

\* UISubSetups with the Figma integration run by the complete suite as well
UISubSetupsWithFigma(uiTools) ==
    CASE uiTools = "storybook"           -> <<"storybook">>
      [] uiTools = "storybook-chromatic" -> <<"storybook", "chromatic">>
      [] uiTools = "storybook-figma"     -> <<"storybook", "figma">>
      [] uiTools = "react-devtools"      -> <<"react-devtools">>
      [] uiTools = "complete-suite"      ->
            <<"storybook", "chromatic", "figma", "react-devtools">>
      [] OTHER                           -> <<>>

\* setupUITools: the sub-setups each case of the switch awaits, in order
UISubSetups(uiTools) ==
    CASE uiTools = "storybook"           -> <<"storybook">>
      [] uiTools = "storybook-chromatic" -> <<"storybook", "chromatic">>
      [] uiTools = "storybook-figma"     -> <<"storybook", "figma">>
      [] uiTools = "react-devtools"      -> <<"react-devtools">>
      [] uiTools = "complete-suite"      -> <<"storybook", "chromatic", "react-devtools">>
      [] OTHER                           -> <<>>

\* setupUITools: call the next sub-setup of the selected case, or return
SetupUITools ==
    /\ pc = "await" /\ stage = "ui:switch"
    /\ IF subIdx <= Len(UISubSetups(answers.uiTools))
       THEN /\ stage' = UISubSetups(answers.uiTools)[subIdx]
            /\ uiLog' = Append(uiLog, <<"start", UISubSetups(answers.uiTools)[subIdx]>>)
       ELSE /\ stage' = "resolved"
            /\ UNCHANGED uiLog
    /\ UNCHANGED <<answers, pc, featIdx, subIdx, failure, spinnerText, started,
                   finished, files, envExample, scripts, procs>>
    /\ UNCHANGED <<ciWorkflow, frameworkVars, cliVars, monorepoVars>>

\* the awaited sub-setup resolved: back in the switch case
UISubDone(sub) ==
    /\ stage' = "ui:switch"
    /\ subIdx' = subIdx + 1
    /\ uiLog' = Append(uiLog, <<"end", sub>>)
    /\ UNCHANGED failure

UISubFailed(msg) ==
    /\ Raise(msg)
    /\ UNCHANGED <<subIdx, uiLog>>

SetupStorybook ==
    /\ pc = "await" /\ stage = "storybook"
    /\ \E ok \in BOOLEAN :
          IF ok THEN /\ files' = files \cup {"app:.storybook/main.js"}
                     /\ UISubDone("storybook")
                ELSE /\ UISubFailed(<<"storybook", " failed">>)
                     /\ UNCHANGED files
    /\ UNCHANGED <<answers, pc, featIdx, spinnerText, started, finished,
                   envExample, scripts, procs>>
    /\ UNCHANGED <<ciWorkflow, frameworkVars, cliVars, monorepoVars>>

ChromaticScripts ==
    {<<"chromatic", "chromatic --exit-zero-on-changes">>,
     <<"chromatic:ci",
       "chromatic --exit-zero-on-changes --build-script-name=build-storybook">>}

ChromaticFiles(a) ==
    <<"app:chromatic.config.js">> \o
    (IF "github-actions" \in a.cicdDevOps
     THEN <<"root:.github/workflows/chromatic.yml">> ELSE <<>>)

\* setupChromatic: execa add -D chromatic, package.json scripts (errors
\* swallowed), chromatic.config.js, the workflow when GitHub Actions is selected
SetupChromatic ==
    /\ pc = "await" /\ stage = "chromatic"
    /\ Spawn(answers.packageManager, "add -D", NoTimeout)
    /\ \E installed \in BOOLEAN, scriptsOk \in BOOLEAN,
          n \in 0..Len(ChromaticFiles(answers)) :
          IF ~installed
          THEN /\ UISubFailed(<<"Failed to setup Chromatic: ", "Command failed">>)
               /\ UNCHANGED <<files, scripts>>
          ELSE /\ scripts' = IF scriptsOk THEN AssignScripts(scripts, ChromaticScripts)
                                          ELSE scripts
               /\ files' = files \cup Written(ChromaticFiles(answers), n)
               /\ IF n = Len(ChromaticFiles(answers))
                  THEN UISubDone("chromatic")
                  ELSE UISubFailed(<<"Failed to setup Chromatic: ", "write failed">>)
    /\ UNCHANGED <<answers, pc, featIdx, spinnerText, started, finished, envExample>>
    /\ UNCHANGED <<ciWorkflow, frameworkVars, cliVars, monorepoVars>>

FigmaFiles ==
    <<"app:style-dictionary.config.js", "app:scripts/sync-figma-tokens.js",
      "app:src/design-tokens/tokens.json">>

\* setupFigmaIntegration: execa add -D, config, sync script, Storybook addon
\* (errors swallowed), tokens file, updateEnvironmentWithFigma
SetupFigmaIntegration ==
    /\ pc = "await" /\ stage = "figma"
    /\ Spawn(answers.packageManager, "add -D", NoTimeout)
    /\ \E installed \in BOOLEAN, n \in 0..Len(FigmaFiles),
          o \in UpdateEnvOutcomes(envExample) :
          IF ~installed
          THEN /\ UISubFailed(<<"Failed to setup Figma integration: ", "Command failed">>)
               /\ UNCHANGED <<files, envExample>>
          ELSE /\ files' = files \cup Written(FigmaFiles, n)
               /\ IF n < Len(FigmaFiles)
                  THEN /\ UISubFailed(<<"Failed to setup Figma integration: ", "write failed">>)
                       /\ UNCHANGED envExample
                  ELSE /\ envExample' = UpdateEnvironmentWith(envExample, "env:figma", o)
                       /\ IF o = "fallbackFails"
                          THEN UISubFailed(<<"Failed to setup Figma integration: ", "write failed">>)
                          ELSE UISubDone("figma")
    /\ UNCHANGED <<answers, pc, featIdx, spinnerText, started, finished, scripts>>
    /\ UNCHANGED <<ciWorkflow, frameworkVars, cliVars, monorepoVars>>

\* setupReactDevTools: docs/react-devtools-guide.md
SetupReactDevTools ==
    /\ pc = "await" /\ stage = "react-devtools"
    /\ \E ok \in BOOLEAN :
          IF ok THEN /\ files' = files \cup {"app:docs/react-devtools-guide.md"}
                     /\ UISubDone("react-devtools")
                ELSE /\ UISubFailed(<<"Failed to setup React DevTools: ", "write failed">>)
                     /\ UNCHANGED files
    /\ UNCHANGED <<answers, pc, featIdx, spinnerText, started, finished,
                   envExample, scripts, procs>>
    /\ UNCHANGED <<ciWorkflow, frameworkVars, cliVars, monorepoVars>>

-----------------------------------------------------------------------------
(* features/realtime.ts *)

RealtimePrefix(a) ==
    IF a.realtimeCollaboration = "liveblocks" THEN <<"Failed to setup Liveblocks: ">>
                                              ELSE <<"Failed to setup Ably: ">>

RealtimeFiles(a) ==
    IF a.realtimeCollaboration = "liveblocks"
    THEN <<"app:src/liveblocks/client.ts", "app:src/liveblocks/index.ts",
           "app:src/components/liveblocks/CollaborativeCursor.tsx",
           "app:src/components/liveblocks/SharedCounter.tsx">>
    ELSE <<"app:src/lib/ably.ts", "app:src/contexts/AblyProvider.tsx",
           "app:src/components/ably/RealtimeChat.tsx">>

RealtimeEnvBlock(a) ==
    IF a.realtimeCollaboration = "liveblocks" THEN "env:liveblocks" ELSE "env:ably"

\* setupLiveblocks / setupAbly: execa(packageManager, ["add", ...packages])
RealtimeInstall ==
    /\ pc = "await" /\ stage = "rt:install"
    /\ Spawn(answers.packageManager, "add", NoTimeout)
    /\ \E ok \in BOOLEAN :
          IF ok THEN stage' = "rt:files" /\ UNCHANGED failure
                ELSE Raise(RealtimePrefix(answers) \o <<"Command failed">>)
    /\ UNCHANGED <<answers, pc, featIdx, subIdx, spinnerText, started,
                   finished, uiLog, files, envExample, scripts>>
    /\ UNCHANGED <<ciWorkflow, frameworkVars, cliVars, monorepoVars>>

\* create*Config and create*Examples
RealtimeCreateFiles ==
    /\ pc = "await" /\ stage = "rt:files"
    /\ \E n \in 0..Len(RealtimeFiles(answers)) :
          /\ files' = files \cup Written(RealtimeFiles(answers), n)
          /\ IF n = Len(RealtimeFiles(answers))
             THEN stage' = "rt:env" /\ UNCHANGED failure
             ELSE Raise(RealtimePrefix(answers) \o <<"write failed">>)
    /\ UNCHANGED <<answers, pc, featIdx, subIdx, spinnerText, started,
                   finished, uiLog, envExample, scripts, procs>>
    /\ UNCHANGED <<ciWorkflow, frameworkVars, cliVars, monorepoVars>>

\* updateEnvironmentWithLiveblocks / updateEnvironmentWithAbly, then return
RealtimeUpdateEnv ==
    /\ pc = "await" /\ stage = "rt:env"
    /\ \E o \in UpdateEnvOutcomes(envExample) :
          /\ envExample' = UpdateEnvironmentWith(envExample, RealtimeEnvBlock(answers), o)
          /\ IF o = "fallbackFails"
             THEN Raise(RealtimePrefix(answers) \o <<"write failed">>)
             ELSE stage' = "resolved" /\ UNCHANGED failure
    /\ UNCHANGED <<answers, pc, featIdx, subIdx, spinnerText, started,
                   finished, uiLog, files, scripts, procs>>
    /\ UNCHANGED <<ciWorkflow, frameworkVars, cliVars, monorepoVars>>

-----------------------------------------------------------------------------
(* features/cicd.ts *)

WorkflowFiles == <<"root:.github/workflows/ci.yml", "root:.github/workflows/deploy.yml">>

\* createTestingSteps: which optional steps the CI workflow gets
CreateTestingSteps(a) ==
    LET hasJest == Includes(a.testingTools, "jest")
        hasPlaywright == Includes(a.testingTools, "playwright")
        hasReactTestingLibrary == Includes(a.testingTools, "react-testing-library")
    IN  [playwrightInstall |->
            IF hasPlaywright THEN <<"Install Playwright Browsers">> ELSE <<>>,
         unitTests |->
            IF hasJest \/ hasReactTestingLibrary THEN <<"Run unit tests">> ELSE <<>>,
         e2eTests |->
            IF hasPlaywright THEN <<"Run e2e tests">> ELSE <<>>]

\* the steps of the ciWorkflow template, in order
CiWorkflow(a) ==
    <<"checkout", "Use Node.js", "Install dependencies">>
    \o CreateTestingSteps(a).playwrightInstall
    \o <<"Run linter", "Run type check">>
    \o CreateTestingSteps(a).unitTests \o CreateTestingSteps(a).e2eTests
    \o <<"Build">>

\* setupGithubActions: ci.yml, then deploy.yml; no try/catch of its own
SetupGithubActions ==
    /\ pc = "await" /\ stage = "github:write"
    /\ \E n \in 0..Len(WorkflowFiles) :
          /\ files' = files \cup Written(WorkflowFiles, n)
          /\ ciWorkflow' = IF n >= 1 THEN CiWorkflow(answers) ELSE ciWorkflow
          /\ IF n = Len(WorkflowFiles)
             THEN stage' = "resolved" /\ UNCHANGED failure
             ELSE Raise(<<"write failed">>)
    /\ UNCHANGED <<answers, pc, featIdx, subIdx, spinnerText, started,
                   finished, uiLog, envExample, scripts, procs>>
    /\ UNCHANGED <<frameworkVars, cliVars, monorepoVars>>

-----------------------------------------------------------------------------

Next ==
    \/ LoopSkip \/ LoopStart \/ LoopResume \/ LoopCatch \/ LoopReturn
    \/ AuthInstall \/ AuthCreateFiles \/ AuthUpdateEnv
    \/ SetupDatabase \/ SetupPrismaInstall \/ SetupOrmFiles \/ CreateEnvironmentTemplate
    \/ SetupStripe \/ SetupPWA \/ SetupDocker \/ SetupHusky
    \/ SetupTestingTool \/ UpdatePackageJsonScripts
    \/ SetupUITools \/ SetupStorybook \/ SetupChromatic \/ SetupFigmaIntegration
    \/ SetupReactDevTools
    \/ RealtimeInstall \/ RealtimeCreateFiles \/ RealtimeUpdateEnv
    \/ SetupGithubActions

Spec == Init /\ [][Next]_vars

-----------------------------------------------------------------------------
(* utils/framework/*.ts: the framework setup services                      *)
(*                                                                         *)
(* setupStandard and setupWithNx are straight-line sequences of awaited    *)
(* steps; each is given as the list of its steps for the answers at hand.  *)

GeneratorTimeout == 300000

Services == {"express-trpc", "nextjs", "vite", "astro"}
MonorepoTools == {"turbo", "nx", "none"}
Linters == {"biome", "eslint-prettier"}

FwAnswerSpace ==
    [packageManager : PackageManagers,
     monorepoTool : MonorepoTools,
     linter : Linters,
     useTailwind : BOOLEAN,
     useShadcn : BOOLEAN,
     useTRPC : BOOLEAN,
     ormDatabase : OrmDatabases]

\* a file-system step: ensureDirectory, writeFile, writeJson, updatePackageJson
WriteStep(op) ==
    [op |-> op, kind |-> "write", cmd |-> "", timeout |-> NoTimeout,
     tolerated |-> FALSE, viaExecuteCommand |-> FALSE]

\* an execa call; `tolerated` when it sits in a try whose catch only warns,
\* `viaExecuteCommand` when the command comes from getExecuteCommand
ExecStep(op, cmd, timeout, tolerated, viaExecuteCommand) ==
    [op |-> op, kind |-> "exec", cmd |-> cmd, timeout |-> timeout,
     tolerated |-> tolerated, viaExecuteCommand |-> viaExecuteCommand]

\* a packageManager.installPackages call
InstallStep(op, pm) ==
    [op |-> op, kind |-> "exec", cmd |-> pm, timeout |-> DefaultInstallTimeout,
     tolerated |-> FALSE, viaExecuteCommand |-> FALSE]

When(cond, steps) == IF cond THEN steps ELSE <<>>

ExpressSetupBiome(a) ==
    <<ExecStep("biome init", "execute", NoTimeout, TRUE, TRUE)>>

ExpressSetupDatabase(a) ==
    CASE a.ormDatabase = "prisma" ->
            <<WriteStep("express:updatePackageJson"),
              ExecStep("prisma init", "execute", NoTimeout, TRUE, TRUE),
              WriteStep("express:src/lib/prisma.ts")>>
      [] a.ormDatabase = "drizzle" -> <<WriteStep("express:setupDrizzle")>>
      [] a.ormDatabase = "kysely"  -> <<WriteStep("express:setupKysely")>>
      [] OTHER -> <<>>

ExpressSetupStandard(a) ==
    <<WriteStep("express:ensureDirectory"),
      WriteStep("express:package.json"),
      WriteStep("express:createBackendStructure"),
      WriteStep("express:.gitignore")>>
    \o When(a.linter = "biome", ExpressSetupBiome(a))
    \o When(a.ormDatabase # "none", ExpressSetupDatabase(a))

ExpressSetupWithNx(a) ==
    <<ExecStep("nx g @nx/node:app", "execute", GeneratorTimeout, FALSE, TRUE),
      WriteStep("express:.gitignore"),
      WriteStep("express:setupTRPC")>>
    \o When(a.ormDatabase # "none", ExpressSetupDatabase(a))

AddUILibraryDependency(a) == When(a.useShadcn, <<WriteStep("app:addUILibraryToApp")>>)

NextJsSetupBiome(a) ==
    <<InstallStep("install @biomejs/biome", a.packageManager),
      ExecStep("biome init", "npx", NoTimeout, TRUE, FALSE),
      ExecStep("biome format", "npx", NoTimeout, TRUE, FALSE)>>

NextJsSetupTRPC(a) ==
    <<InstallStep("install trpc", a.packageManager), WriteStep("nextjs:setupTRPC")>>

NextJsSetupStandard(a) ==
    <<WriteStep("nextjs:ensureDirectory apps"),
      ExecStep("create-next-app", "npx", GeneratorTimeout, FALSE, FALSE),
      WriteStep("nextjs:.gitignore"),
      WriteStep("nextjs:updatePackageJson")>>
    \o When(a.linter = "biome", NextJsSetupBiome(a))
    \o When(a.useTailwind,
            <<InstallStep("install tailwind", a.packageManager),
              WriteStep("nextjs:setupTailwind")>>)
    \o AddUILibraryDependency(a)
    \o When(a.useTRPC, NextJsSetupTRPC(a))

NextJsSetupWithNx(a) ==
    <<ExecStep("nx g @nx/next:app", "npx", GeneratorTimeout, FALSE, FALSE),
      WriteStep("nextjs:.gitignore")>>
    \o AddUILibraryDependency(a)
    \o When(a.useTRPC, NextJsSetupTRPC(a))

ViteSetupTRPC(a) ==
    <<InstallStep("install trpc", a.packageManager), WriteStep("vite:setupTRPC")>>

ViteSetupStandard(a) ==
    <<WriteStep("vite:ensureDirectory apps"),
      ExecStep("create-vite", "npx", GeneratorTimeout, FALSE, FALSE),
      WriteStep("vite:.gitignore"),
      InstallStep("installAdditionalDependencies", a.packageManager),
      WriteStep("vite:setupTailwind"),
      WriteStep("vite:updatePackageJson")>>
    \o When(a.linter = "biome",
            <<InstallStep("install @biomejs/biome", a.packageManager),
              WriteStep("vite:biome.json")>>)
    \o AddUILibraryDependency(a)
    \o When(a.useTRPC, ViteSetupTRPC(a))

ViteSetupWithNx(a) ==
    <<ExecStep("nx g @nx/react:app", "npx", GeneratorTimeout, FALSE, FALSE)>>
    \o AddUILibraryDependency(a)
    \o When(a.useTRPC, ViteSetupTRPC(a))

AstroSetupStandard(a) ==
    <<WriteStep("astro:ensureDirectory apps"),
      ExecStep("create-astro", "execute", GeneratorTimeout, FALSE, TRUE),
      WriteStep("astro:.gitignore"),
      InstallStep("installAdditionalDependencies", a.packageManager)>>
    \o When(a.useTailwind,
            <<InstallStep("install tailwind", a.packageManager),
              WriteStep("astro:setupTailwind")>>)
    \o <<WriteStep("astro:updatePackageJson")>>
    \o When(a.linter = "biome",
            <<InstallStep("install @biomejs/biome", a.packageManager),
              WriteStep("astro:biome.json")>>)
    \o AddUILibraryDependency(a)
    \o When(a.useTRPC,
            <<InstallStep("install trpc", a.packageManager),
              WriteStep("astro:setupTRPC")>>)

\* AstroSetupService.setupWithNx falls back to the standard setup
AstroSetupWithNx(a) == AstroSetupStandard(a)

\* setup(): the branch on answers.monorepoTool
SetupSteps(svc, a) ==
    CASE svc = "express-trpc" ->
            IF a.monorepoTool = "nx" THEN ExpressSetupWithNx(a) ELSE ExpressSetupStandard(a)
      [] svc = "nextjs" ->
            IF a.monorepoTool = "nx" THEN NextJsSetupWithNx(a) ELSE NextJsSetupStandard(a)
      [] svc = "vite" ->
            IF a.monorepoTool = "nx" THEN ViteSetupWithNx(a) ELSE ViteSetupStandard(a)
      [] svc = "astro" ->
            IF a.monorepoTool = "nx" THEN AstroSetupWithNx(a) ELSE AstroSetupStandard(a)

FrameworkName(svc) ==
    CASE svc = "express-trpc" -> "Express + tRPC"
      [] svc = "nextjs"       -> "Next.js"
      [] svc = "vite"         -> "Vite"
      [] svc = "astro"        -> "Astro"

SuccessMessage(svc, a) ==
    CASE svc = "express-trpc" ->
            IF a.monorepoTool = "nx"
            THEN <<"Express + tRPC with Nx setup completed successfully!">>
            ELSE <<"Express + tRPC backend setup completed successfully!">>
      [] svc = "nextjs" ->
            IF a.monorepoTool = "nx"
            THEN <<"Next.js with Nx setup completed successfully!">>
            ELSE <<"Next.js setup completed successfully!">>
      [] svc = "vite" ->
            IF a.monorepoTool = "nx"
            THEN <<"React/Vite with Nx setup completed successfully!">>
            ELSE <<"Vite setup completed successfully!">>
      [] svc = "astro" -> <<"Astro setup completed successfully!">>

StepOutcomes(step) ==
    IF step.kind = "write" THEN {"ok", "failed"}
    ELSE IF step.viaExecuteCommand THEN {"ok", "failed", "noCommand"}
    ELSE {"ok", "failed"}

StepError(step, outcome) ==
    IF step.kind = "write" THEN <<"write failed: ", step.op>>
    ELSE IF outcome = "noCommand" THEN <<"Invalid execute command">>
    ELSE <<"Command failed: ", step.op>>

InitFw ==
    /\ answers \in FwAnswerSpace
    /\ service \in Services
    /\ fwPc = "called"
    /\ fwIdx = 1
    /\ result = NoResult
    /\ failure = NoError
    /\ files = {}
    /\ procs = {}
    /\ FeaturesIdle /\ CLIIdle /\ MonorepoIdle

\* setup(): enter the try block and the branch for the monorepo tool
Setup ==
    /\ fwPc = "called"
    /\ fwPc' = "try"
    /\ UNCHANGED <<answers, service, fwIdx, result, failure, files, procs>>
    /\ UNCHANGED <<featureVars, cliVars, monorepoVars>>

\* one awaited step of setupStandard / setupWithNx
SetupStep ==
    /\ fwPc = "try"
    /\ fwIdx <= Len(SetupSteps(service, answers))
    /\ LET step == SetupSteps(service, answers)[fwIdx] IN
       \E outcome \in StepOutcomes(step) :
          /\ procs' = IF step.kind = "exec" /\ outcome # "noCommand"
                      THEN procs \cup {Proc(step.cmd, step.op, step.timeout)}
                      ELSE procs
          /\ files' = IF step.kind = "write" /\ outcome = "ok"
                      THEN files \cup {step.op}
                      ELSE files
          /\ IF outcome = "ok" \/ step.tolerated
             THEN /\ fwIdx' = fwIdx + 1
                  /\ UNCHANGED <<fwPc, failure>>
             ELSE /\ fwPc' = "catch"
                  /\ failure' = StepError(step, outcome)
                  /\ UNCHANGED fwIdx
    /\ UNCHANGED <<answers, service, result>>
    /\ UNCHANGED <<featureVars, cliVars, monorepoVars>>

\* return { success: true, message } at the end of setupStandard / setupWithNx
SetupReturn ==
    /\ fwPc = "try"
    /\ fwIdx > Len(SetupSteps(service, answers))
    /\ result' = [success |-> TRUE, message |-> SuccessMessage(service, answers)]
    /\ fwPc' = "returned"
    /\ UNCHANGED <<answers, service, fwIdx, failure, files, procs>>
    /\ UNCHANGED <<featureVars, cliVars, monorepoVars>>

\* SetupCatch that logs and re-throws instead of returning a result
SetupCatchRethrow ==
    /\ fwPc = "catch"
    /\ fwPc' = "thrown"
    /\ failure' = <<"Failed to setup ", FrameworkName(service), ": ">> \o failure
    /\ UNCHANGED <<answers, service, fwIdx, result, files, procs>>
    /\ UNCHANGED <<featureVars, cliVars, monorepoVars>>

\* setup(): catch (error) { ...; return { success: false, message } }
SetupCatch ==
    /\ fwPc = "catch"
    /\ result' = [success |-> FALSE,
                  message |-> <<"Failed to setup ", FrameworkName(service), ": ">>
                              \o failure]
    /\ fwPc' = "returned"
    /\ UNCHANGED <<answers, service, fwIdx, failure, files, procs>>
    /\ UNCHANGED <<featureVars, cliVars, monorepoVars>>

NextFw == Setup \/ SetupStep \/ SetupReturn \/ SetupCatch

SpecFw == InitFw /\ [][NextFw]_vars

-----------------------------------------------------------------------------
(* cli.ts: the CLI process *)

\* runCLI completes at most this many awaited steps before it settles
MaxRunSteps == 3

Argvs == {"", "--help", "--version", "--unknown-option"}
Errors == {"Error: command failed", "Error: EACCES", "cancelled"}

InitCLI ==
    /\ cliPc = "load"
    /\ argv \in Argvs
    /\ runSteps = 0
    /\ exitCode = NoExit
    /\ runFailed = "none"
    /\ cliLog = <<>>
    /\ answers = [packageManager |-> "npm"]
    /\ failure = NoError
    /\ files = {}
    /\ procs = {}
    /\ FeaturesIdle /\ FrameworkIdle /\ MonorepoIdle

CLIFrame == UNCHANGED <<answers, files, procs, featureVars, frameworkVars, monorepoVars>>

\* the module body registers the two process handlers and calls main();
\* main() builds the program and calls program.parse(): without arguments the
\* action starts runCLI, --help and --version print and exit with status 0,
\* an unknown option makes commander exit with status 1, and an error thrown
\* inside main() rejects the promise main() returned
Main ==
    /\ cliPc = "load"
    /\ \/ /\ argv = ""
          /\ cliPc' = "running"
          /\ UNCHANGED <<exitCode, runFailed, failure>>
       \/ /\ argv \in {"--help", "--version"}
          /\ cliPc' = "exited"
          /\ exitCode' = 0
          /\ UNCHANGED <<runFailed, failure>>
       \/ /\ argv = "--unknown-option"
          /\ cliPc' = "exited"
          /\ exitCode' = 1
          /\ UNCHANGED <<runFailed, failure>>
       \/ \E e \in Errors :
          /\ cliPc' = "mainRejected"
          /\ runFailed' = "main"
          /\ failure' = <<e>>
          /\ UNCHANGED exitCode
    /\ UNCHANGED <<argv, runSteps, cliLog>>
    /\ CLIFrame

\* main().catch((error) => { logger.error("Fatal error:", error); process.exit(1) })
MainCatch ==
    /\ cliPc = "mainRejected"
    /\ cliLog' = Append(cliLog, <<"Fatal error:">> \o failure)
    /\ exitCode' = 1
    /\ cliPc' = "exited"
    /\ UNCHANGED <<argv, runSteps, runFailed, failure>>
    /\ CLIFrame

\* runCLI() completes one more awaited step
RunCLIStep ==
    /\ cliPc = "running"
    /\ runSteps < MaxRunSteps
    /\ runSteps' = runSteps + 1
    /\ UNCHANGED <<cliPc, argv, exitCode, runFailed, cliLog, failure>>
    /\ CLIFrame

\* await runCLI() resolves: the action returns
RunCLIResolve ==
    /\ cliPc = "running"
    /\ cliPc' = "resolved"
    /\ UNCHANGED <<argv, runSteps, exitCode, runFailed, cliLog, failure>>
    /\ CLIFrame

\* await runCLI() rejects: control enters the catch block of the action
RunCLIReject ==
    /\ cliPc = "running"
    /\ \E e \in Errors : failure' = <<e>>
    /\ runFailed' = "runCLI"
    /\ cliPc' = "actionCatch"
    /\ UNCHANGED <<argv, runSteps, exitCode, cliLog>>
    /\ CLIFrame

\* ActionCatch that reports the error without calling process.exit(1)
ActionCatchLogOnly ==
    /\ cliPc = "actionCatch"
    /\ cliLog' = Append(cliLog, <<"Setup failed:">> \o failure)
    /\ cliPc' = "resolved"
    /\ UNCHANGED <<argv, runSteps, exitCode, runFailed, failure>>
    /\ CLIFrame

\* catch (error) { console.error("Setup failed:", error); process.exit(1) }
ActionCatch ==
    /\ cliPc = "actionCatch"
    /\ cliLog' = Append(cliLog, <<"Setup failed:">> \o failure)
    /\ exitCode' = 1
    /\ cliPc' = "exited"
    /\ UNCHANGED <<argv, runSteps, runFailed, failure>>
    /\ CLIFrame

\* a promise nobody handles rejects, or a callback throws, while the process
\* is alive: node emits 'unhandledRejection' / 'uncaughtException'
ProcessEvent ==
    /\ cliPc \in {"running", "resolved"}
    /\ \E kind \in {"unhandledRejection", "uncaughtException"}, e \in Errors :
          /\ runFailed' = kind
          /\ failure' = <<e>>
          /\ cliPc' = kind
    /\ UNCHANGED <<argv, runSteps, exitCode, cliLog>>
    /\ CLIFrame

\* process.on("unhandledRejection", ...): log and process.exit(1)
OnUnhandledRejection ==
    /\ cliPc = "unhandledRejection"
    /\ cliLog' = Append(cliLog, <<"Unhandled rejection:">> \o failure)
    /\ exitCode' = 1
    /\ cliPc' = "exited"
    /\ UNCHANGED <<argv, runSteps, runFailed, failure>>
    /\ CLIFrame

\* process.on("uncaughtException", ...): log and process.exit(1)
OnUncaughtException ==
    /\ cliPc = "uncaughtException"
    /\ cliLog' = Append(cliLog, <<"Uncaught exception:">> \o failure)
    /\ exitCode' = 1
    /\ cliPc' = "exited"
    /\ UNCHANGED <<argv, runSteps, runFailed, failure>>
    /\ CLIFrame

\* nothing is left to run after the action returned: node exits with status 0
ExitWhenIdle ==
    /\ cliPc = "resolved"
    /\ exitCode' = 0
    /\ cliPc' = "exited"
    /\ UNCHANGED <<argv, runSteps, runFailed, cliLog, failure>>
    /\ CLIFrame

NextCLI ==
    \/ Main \/ MainCatch
    \/ RunCLIStep \/ RunCLIResolve \/ RunCLIReject \/ ActionCatch
    \/ ProcessEvent \/ OnUnhandledRejection \/ OnUncaughtException
    \/ ExitWhenIdle

SpecCLI == InitCLI /\ [][NextCLI]_vars

-----------------------------------------------------------------------------
(* monorepo/index.ts and UILibrarySetupService: the workspace root.
   In this specification `files` holds [path, by] records: the path segments
   below the project root and the writer of the current content; `procs`
   holds the arguments of a process as a sequence. *)

\* "lerna" stands for any value outside the MonorepoTool type
MonoTools == {"turbo", "nx", "none", "lerna"}

MonoAnswerSpace ==
    [monorepoTool : MonoTools, useShadcn : BOOLEAN, packageManager : PackageManagers]

File(path, by) == [path |-> path, by |-> by]

Under(dir, p) == Len(p) >= Len(dir) /\ SubSeq(p, 1, Len(dir)) = dir

\* fileSystem.writeFile / writeJson / updatePackageJson
WriteFile(fs, path, by) == {f \in fs : f.path # path} \cup {File(path, by)}

\* fileSystem.ensureDirectory
EnsureDirectory(fs, dir) ==
    IF \E f \in fs : f.path = dir THEN fs ELSE fs \cup {File(dir, "ensureDirectory")}

\* fs.remove
Remove(fs, dir) == {f \in fs : ~Under(dir, f.path)}

\* fs.move(from, to, { overwrite: true })
Move(fs, from, to) ==
    LET moved == {f \in fs : Under(from, f.path)}
        Target(f) == File(to \o SubSeq(f.path, Len(from) + 1, Len(f.path)), f.by)
        targets == {Target(f) : f \in moved}
    IN  {f \in fs \ moved : \A t \in targets : t.path # f.path} \cup targets

\* what `create-turbo --example-path=basic` leaves in the project directory
TurboExample ==
    {File(p, "create-turbo@latest") :
        p \in {<<"package.json">>, <<"turbo.json">>, <<"README.md">>, <<".gitignore">>,
               <<"apps">>, <<"apps", "web", "package.json">>,
               <<"packages">>, <<"packages", "ui", "package.json">>}}

\* what `create-nx-workspace --preset=npm --name=workspace` leaves there
NxEntries == <<"package.json", "nx.json", ".gitignore">>

NxPreset ==
    {File(<<"workspace">>, "create-nx-workspace@latest")} \cup
    {File(<<"workspace", NxEntries[i]>>, "create-nx-workspace@latest") :
        i \in 1..Len(NxEntries)}

Generated(pkg) ==
    IF pkg = "create-turbo@latest" THEN TurboExample
    ELSE IF pkg = "create-nx-workspace@latest" THEN NxPreset
    ELSE {}

\* one awaited call: `fn` is the function that makes it, `by` names the
\* writer (or the package a generator runs), `tolerated` is TRUE when its
\* rejection is swallowed (.catch(() => {}) or a catch that only records it)
Call(fn, kind, path, by, tolerated) ==
    [fn |-> fn, kind |-> kind, path |-> path, by |-> by, tolerated |-> tolerated]

\* createProjectGitignore
CreateProjectGitignore(fn) ==
    <<Call(fn, "write", <<".gitignore">>, "createProjectGitignore", FALSE)>>

\* setupTurboRepo
SetupTurboRepo ==
    <<Call("setupTurboRepo", "execute", <<>>, "create-turbo@latest", FALSE),
      Call("setupTurboRepo", "remove", <<"README.md">>, "", TRUE),
      Call("setupTurboRepo", "remove", <<".gitignore">>, "", TRUE),
      Call("setupTurboRepo", "remove", <<"apps">>, "", TRUE),
      Call("setupTurboRepo", "remove", <<"packages">>, "", TRUE),
      Call("setupTurboRepo", "mkdir", <<"apps">>, "", FALSE),
      Call("setupTurboRepo", "mkdir", <<"packages">>, "", FALSE)>>
    \o CreateProjectGitignore("setupTurboRepo")
    \o <<Call("setupTurboRepo", "write", <<"turbo.json">>, "setupTurboRepo", FALSE)>>

\* SetupNx that writes the project's .gitignore before it moves the
\* generated files to the root
SetupNxGitignoreFirst ==
    <<Call("setupNx", "execute", <<>>, "create-nx-workspace@latest", FALSE)>>
    \o CreateProjectGitignore("setupNx")
    \o <<Call("setupNx", "readdir", <<"workspace">>, "", FALSE)>>
    \o [i \in 1..Len(NxEntries) |->
            Call("setupNx", "move", <<"workspace", NxEntries[i]>>, "", FALSE)]
    \o <<Call("setupNx", "remove", <<"workspace">>, "", FALSE)>>

\* setupNx
SetupNx ==
    <<Call("setupNx", "execute", <<>>, "create-nx-workspace@latest", FALSE),
      Call("setupNx", "readdir", <<"workspace">>, "", FALSE)>>
    \o [i \in 1..Len(NxEntries) |->
            Call("setupNx", "move", <<"workspace", NxEntries[i]>>, "", FALSE)]
    \o <<Call("setupNx", "remove", <<"workspace">>, "", FALSE)>>
    \o CreateProjectGitignore("setupNx")

\* setupNpmWorkspaces
SetupNpmWorkspaces ==
    <<Call("setupNpmWorkspaces", "write", <<"package.json">>, "updatePackageJson", FALSE)>>
    \o CreateProjectGitignore("setupNpmWorkspaces")

\* setupNxWorkspaceLibraries
SetupNxWorkspaceLibraries ==
    LET fn == "setupNxWorkspaceLibraries"
    IN  <<Call(fn, "mkdir", <<"packages">>, "", FALSE),
          Call(fn, "mkdir", <<"packages", "ui">>, "", FALSE),
          Call(fn, "write", <<"packages", "ui", "package.json">>, fn, FALSE),
          Call(fn, "write", <<"packages", "ui", "index.ts">>, fn, FALSE),
          Call(fn, "mkdir", <<"packages", "utils">>, "", FALSE),
          Call(fn, "write", <<"packages", "utils", "package.json">>, fn, FALSE),
          Call(fn, "write", <<"packages", "utils", "index.ts">>, fn, FALSE)>>

\* generateNxWorkspaceConfig
GenerateNxWorkspaceConfig ==
    <<Call("generateNxWorkspaceConfig", "write", <<".nxignore">>,
           "generateNxWorkspaceConfig", FALSE)>>

\* MonoSteps with the `break` of the turbo case missing: it falls through
\* into the nx case
MonoStepsFallThrough(a) ==
    CASE a.monorepoTool = "turbo" ->
            SetupTurboRepo \o SetupNx \o SetupNxWorkspaceLibraries
            \o GenerateNxWorkspaceConfig
      [] a.monorepoTool = "nx" ->
            SetupNx \o SetupNxWorkspaceLibraries \o GenerateNxWorkspaceConfig
      [] a.monorepoTool = "none" -> SetupNpmWorkspaces
      [] OTHER -> <<>>

\* the switch of setupMonorepo
MonoSteps(a) ==
    CASE a.monorepoTool = "turbo" -> SetupTurboRepo
      [] a.monorepoTool = "nx" ->
            SetupNx \o SetupNxWorkspaceLibraries \o GenerateNxWorkspaceConfig
      [] a.monorepoTool = "none" -> SetupNpmWorkspaces
      [] OTHER -> <<>>

\* the catch blocks of setupTurboRepo and setupNx wrap the cause
InnerError(fn, cause) ==
    IF fn = "setupTurboRepo" THEN <<"Failed to initialize Turborepo: ">> \o cause
    ELSE IF fn = "setupNx" THEN <<"Failed to initialize Nx workspace: ">> \o cause
    ELSE cause

\* the catch block of setupMonorepo
MonoError(a, cause) == <<"Failed to setup ", a.monorepoTool, ": ">> \o cause

CallOutcomes(c) ==
    IF c.kind = "execute" THEN {"ok", "failed", "noCommand"} ELSE {"ok", "failed"}

CallError(c, outcome) ==
    IF outcome = "noCommand" THEN <<"Invalid execute command">>
    ELSE <<c.kind, " failed">>

\* the files after the call succeeded
Effect(c, fs) ==
    CASE c.kind = "execute" ->
            {f \in fs : \A g \in Generated(c.by) : g.path # f.path} \cup Generated(c.by)
      [] c.kind = "remove" -> Remove(fs, c.path)
      [] c.kind = "mkdir" -> EnsureDirectory(fs, c.path)
      [] c.kind = "write" -> WriteFile(fs, c.path, c.by)
      [] c.kind = "move" -> Move(fs, c.path, Tail(c.path))
      [] c.kind = "add" -> WriteFile(fs, c.path, "shadcn add")
      [] OTHER -> fs

\* the process the call spawns; none of these execa calls passes `timeout`
Spawned(c, outcome) ==
    IF outcome = "noCommand" THEN {}
    ELSE IF c.kind = "execute" THEN {Proc("execute", <<c.by>>, NoTimeout)}
    ELSE IF c.kind = "init" THEN {Proc("npx", <<"shadcn@latest", "init">>, NoTimeout)}
    ELSE IF c.kind = "add" THEN {Proc("npx", <<"shadcn@latest", "add", c.by>>, NoTimeout)}
    ELSE {}

InitMono ==
    /\ answers \in MonoAnswerSpace
    /\ monoPc = "start"
    /\ monoIdx = 1
    /\ called = <<>>
    /\ libPc = "start"
    /\ libIdx = 1
    /\ attempted = <<>>
    /\ libResult = NoResult
    /\ failure = NoError
    /\ files = {}
    /\ procs = {}
    /\ FeaturesIdle /\ FrameworkIdle /\ CLIIdle

MonoFrame == UNCHANGED <<answers, featureVars, frameworkVars, cliVars>>

\* setupMonorepo is called: the switch picks the tool's functions, or throws
\* for an unknown tool (caught and re-thrown by its own catch block)
SetupMonorepo ==
    /\ monoPc = "start"
    /\ IF answers.monorepoTool \in {"turbo", "nx", "none"}
          THEN /\ monoPc' = "awaiting"
               /\ UNCHANGED failure
          ELSE /\ monoPc' = "rejected"
               /\ failure' = MonoError(answers,
                                <<"Unknown monorepo tool: ", answers.monorepoTool>>)
    /\ UNCHANGED <<monoIdx, called, libPc, libIdx, attempted, libResult, files, procs>>
    /\ MonoFrame

\* the next awaited call of the function setupMonorepo is awaiting settles
MonoStep ==
    /\ monoPc = "awaiting"
    /\ monoIdx <= Len(MonoSteps(answers))
    /\ LET c == MonoSteps(answers)[monoIdx] IN
       /\ called' = IF Includes(called, c.fn) THEN called ELSE Append(called, c.fn)
       /\ \E outcome \in CallOutcomes(c) :
          /\ procs' = procs \cup Spawned(c, outcome)
          /\ IF outcome = "ok"
                THEN /\ files' = Effect(c, files)
                     /\ monoIdx' = monoIdx + 1
                     /\ UNCHANGED <<monoPc, failure>>
                ELSE IF c.tolerated
                THEN /\ monoIdx' = monoIdx + 1
                     /\ UNCHANGED <<monoPc, failure, files>>
                ELSE /\ monoPc' = "rejected"
                     /\ failure' = MonoError(answers,
                                       InnerError(c.fn, CallError(c, outcome)))
                     /\ UNCHANGED <<monoIdx, files>>
    /\ UNCHANGED <<libPc, libIdx, attempted, libResult>>
    /\ MonoFrame

\* the last function of the switch resolved: setupMonorepo resolves
MonoReturn ==
    /\ monoPc = "awaiting"
    /\ monoIdx > Len(MonoSteps(answers))
    /\ monoPc' = "resolved"
    /\ UNCHANGED <<monoIdx, called, libPc, libIdx, attempted, libResult,
                   failure, files, procs>>
    /\ MonoFrame

\* UILibrarySetupService.getLibraryPath
GetLibraryPath(monorepoTool) ==
    IF monorepoTool = "nx" THEN <<"libs", "ui">> ELSE <<"packages", "ui">>

BasicComponents == <<"button", "card", "input", "label">>

\* createUILibraryStructure
CreateUILibraryStructure(lib) ==
    <<Call("createUILibraryStructure", "mkdir", lib, "", FALSE),
      Call("createUILibraryStructure", "mkdir", lib \o <<"src">>, "", FALSE),
      Call("createUILibraryStructure", "mkdir", lib \o <<"src", "lib">>, "", FALSE)>>

\* SetupShadcnInLibrary whose component loop has no try/catch
SetupShadcnInLibraryStrict(lib) ==
    LET fn == "setupShadcnInLibrary"
    IN  <<Call(fn, "write", lib \o <<"components.json">>, fn, FALSE),
          Call(fn, "write", lib \o <<"src", "lib", "utils.ts">>, fn, FALSE),
          Call(fn, "write", lib \o <<"src", "lib", "globals.css">>, fn, FALSE),
          Call(fn, "write", lib \o <<"tailwind.config.ts">>, fn, FALSE),
          Call(fn, "init", lib, "", FALSE)>>
        \o [i \in 1..Len(BasicComponents) |->
                Call(fn, "add", lib \o <<"src", "components", "ui", BasicComponents[i]>>,
                     BasicComponents[i], FALSE)]

\* setupShadcnInLibrary
SetupShadcnInLibrary(lib) ==
    LET fn == "setupShadcnInLibrary"
    IN  <<Call(fn, "write", lib \o <<"components.json">>, fn, FALSE),
          Call(fn, "write", lib \o <<"src", "lib", "utils.ts">>, fn, FALSE),
          Call(fn, "write", lib \o <<"src", "lib", "globals.css">>, fn, FALSE),
          Call(fn, "write", lib \o <<"tailwind.config.ts">>, fn, FALSE),
          Call(fn, "init", lib, "", FALSE)>>
        \o [i \in 1..Len(BasicComponents) |->
                Call(fn, "add", lib \o <<"src", "components", "ui", BasicComponents[i]>>,
                     BasicComponents[i], TRUE)]

\* setupLibraryExports
SetupLibraryExports(lib) ==
    <<Call("setupLibraryExports", "write", lib \o <<"src", "index.ts">>,
           "setupLibraryExports", FALSE)>>

\* setupLibraryPackageJson
SetupLibraryPackageJson(lib) ==
    <<Call("setupLibraryPackageJson", "write", lib \o <<"package.json">>,
           "setupLibraryPackageJson", FALSE),
      Call("setupLibraryPackageJson", "write", lib \o <<"tsconfig.json">>,
           "setupLibraryPackageJson", FALSE)>>

\* createUILibraryGitignore
CreateUILibraryGitignore(lib) ==
    <<Call("createUILibraryGitignore", "write", lib \o <<".gitignore">>,
           "createUILibraryGitignore", FALSE)>>

\* the try block of setupUILibrary
LibSteps(a) ==
    LET lib == GetLibraryPath(a.monorepoTool)
    IN  CreateUILibraryStructure(lib) \o SetupShadcnInLibrary(lib)
        \o SetupLibraryExports(lib) \o SetupLibraryPackageJson(lib)
        \o CreateUILibraryGitignore(lib)

\* setupUILibrary is called on the workspace setupMonorepo produced
SetupUILibrary ==
    /\ monoPc = "resolved"
    /\ libPc = "start"
    /\ IF ~answers.useShadcn
          THEN /\ libPc' = "returned"
               /\ libResult' = [success |-> TRUE, message |-> <<"shadcn/ui setup skipped">>]
          ELSE /\ libPc' = "awaiting"
               /\ UNCHANGED libResult
    /\ UNCHANGED <<monoPc, monoIdx, called, libIdx, attempted, failure, files, procs>>
    /\ MonoFrame

\* the next awaited call of the try block settles; a rejection that is not
\* tolerated lands in the catch block, which returns success = false
LibStep ==
    /\ libPc = "awaiting"
    /\ libIdx <= Len(LibSteps(answers))
    /\ LET c == LibSteps(answers)[libIdx] IN
       /\ attempted' = IF c.kind = "add" THEN Append(attempted, c.by) ELSE attempted
       /\ \E outcome \in CallOutcomes(c) :
          /\ procs' = procs \cup Spawned(c, outcome)
          /\ IF outcome = "ok"
                THEN /\ files' = Effect(c, files)
                     /\ libIdx' = libIdx + 1
                     /\ UNCHANGED <<libPc, libResult>>
                ELSE IF c.tolerated
                THEN /\ libIdx' = libIdx + 1
                     /\ UNCHANGED <<libPc, libResult, files>>
                ELSE /\ libPc' = "returned"
                     /\ libResult' =
                            [success |-> FALSE,
                             message |-> <<"Could not setup shadcn/ui library: ">>
                                         \o CallError(c, outcome)]
                     /\ UNCHANGED <<libIdx, files>>
    /\ UNCHANGED <<monoPc, monoIdx, called, failure>>
    /\ MonoFrame

\* the try block ran to its end
LibReturn ==
    /\ libPc = "awaiting"
    /\ libIdx > Len(LibSteps(answers))
    /\ libPc' = "returned"
    /\ libResult' = [success |-> TRUE, message |-> <<"shadcn/ui library setup complete">>]
    /\ UNCHANGED <<monoPc, monoIdx, called, libIdx, attempted, failure, files, procs>>
    /\ MonoFrame

NextMono ==
    \/ SetupMonorepo \/ MonoStep \/ MonoReturn
    \/ SetupUILibrary \/ LibStep \/ LibReturn

SpecMono == InitMono /\ [][NextMono]_vars

-----------------------------------------------------------------------------
(* Properties of setupAdditionalFeatures (Spec) *)

FeatureOrder ==
    <<"auth", "database", "stripe", "testing", "uitools", "pwa", "realtime",
      "docker", "github", "husky">>

OrderIndex(id) == CHOOSE i \in 1..Len(FeatureOrder) : FeatureOrder[i] = id

\* C2: the selected features run strictly one at a time in the fixed order:
\* the features started so far are in the order of the table, each was
\* selected by the answers, every started feature but possibly the last has
\* finished (so at most one is in progress and a feature starts only after
\* the previous one finished), and a call that returns has run every
\* selected feature.
C2_SequentialInOrder ==
    /\ \A i, j \in 1..Len(started) :
          i < j => OrderIndex(started[i]) < OrderIndex(started[j])
    /\ \A i \in 1..Len(started) : Condition(answers, started[i])
    /\ Len(finished) <= Len(started)
    /\ Len(started) <= Len(finished) + 1
    /\ \A i \in 1..Len(finished) : finished[i] = started[i]
    /\ pc = "returned" =>
          \A i \in SelectedFeatures(answers) : Includes(finished, FeatureOrder[i])

C2_Witness ==
    /\ pc = "returned"
    /\ Len(finished) >= 3
    /\ \E i \in 1..NumFeatures : i \notin SelectedFeatures(answers) /\ i < OrderIndex(finished[3])

\* C3: once the setup of a feature has failed, that feature stays the last
\* one started and never finishes, the call does not return normally, and
\* the error it throws is 'Failed to setup <feature name>: <cause>'.
C3_FailureAborts ==
    /\ failure # NoError =>
          /\ pc \in {"await", "thrown"}
          /\ Len(started) = Len(finished) + 1
          /\ started[Len(started)] = Features[featIdx].id
    /\ pc = "thrown" =>
          /\ Len(failure) > 3
          /\ SubSeq(failure, 1, 3) = <<"Failed to setup ", Features[featIdx].name, ": ">>

C3_Witness ==
    /\ pc = "thrown"
    /\ Len(finished) >= 1
    /\ \E i \in SelectedFeatures(answers) : i > featIdx

\* C5: no rollback: from the moment an error is raised, no file, no
\* .env.example content, no package.json script and no workflow written so
\* far changes.
C5_NoRollback ==
    [][failure # NoError =>
          /\ files' = files /\ envExample' = envExample /\ scripts' = scripts
          /\ ciWorkflow' = ciWorkflow]_vars

C5_Witness ==
    /\ pc = "thrown"
    /\ Len(finished) >= 1
    /\ files # {}
    /\ envExample.exists

\* C6: no step of a run changes the answers record.
C6_AnswersReadOnly == [][answers' = answers]_vars

C6_Witness ==
    /\ pc = "returned"
    /\ Includes(finished, "testing")
    /\ Includes(finished, "auth")

\* the .env.example blocks of the features selected by the answers
ExpectedEnvBlocks(a) ==
    (IF a.authentication = "clerk" THEN {"env:clerk"} ELSE {})
    \cup (IF a.authentication = "nextauth" THEN {"env:nextauth"} ELSE {})
    \cup (IF a.ormDatabase # "none" /\ a.databaseProvider = "neon"
          THEN {"env:neon"} ELSE {})
    \cup (IF a.ormDatabase # "none" /\ a.databaseProvider = "supabase"
          THEN {"env:supabase"} ELSE {})
    \cup (IF a.ormDatabase # "none" /\ a.databaseProvider = "planetscale"
          THEN {"env:planetscale"} ELSE {})
    \cup (IF a.realtimeCollaboration = "liveblocks" THEN {"env:liveblocks"} ELSE {})
    \cup (IF a.realtimeCollaboration = "ably" THEN {"env:ably"} ELSE {})
    \cup (IF a.uiTools = "storybook-figma" THEN {"env:figma"} ELSE {})

\* C8: after setupAdditionalFeatures returns, .env.example contains the
\* block of every selected feature that writes one.
C8_EnvHasEveryBlock ==
    pc = "returned" =>
        \A b \in ExpectedEnvBlocks(answers) : Includes(envExample.content, b)

ExpectedUISubSetups(uiTools) ==
    CASE uiTools = "storybook"           -> <<"storybook">>
      [] uiTools = "storybook-chromatic" -> <<"storybook", "chromatic">>
      [] uiTools = "storybook-figma"     -> <<"storybook", "figma">>
      [] uiTools = "react-devtools"      -> <<"react-devtools">>
      [] uiTools = "complete-suite"      -> <<"storybook", "chromatic", "react-devtools">>
      [] uiTools = "none"                -> <<>>

IsStart(event) == event[1] = "start"

\* the sub-setups setupUITools has called so far, in call order
UIStarted == [i \in 1..Len(SelectSeq(uiLog, IsStart)) |-> SelectSeq(uiLog, IsStart)[i][2]]

\* C10: setupUITools calls exactly the sub-setups of the selected option, in
\* order, and never calls Chromatic or Figma before Storybook has finished.
C10_UIToolsOrder ==
    /\ Len(UIStarted) <= Len(ExpectedUISubSetups(answers.uiTools))
    /\ UIStarted = SubSeq(ExpectedUISubSetups(answers.uiTools), 1, Len(UIStarted))
    /\ Includes(finished, "uitools") => UIStarted = ExpectedUISubSetups(answers.uiTools)
    /\ \A i \in 1..Len(uiLog) :
          uiLog[i] \in {<<"start", "chromatic">>, <<"start", "figma">>} =>
              \E j \in 1..(i - 1) : uiLog[j] = <<"end", "storybook">>
    /\ \A i \in 1..Len(uiLog) :
          (IsStart(uiLog[i]) /\ i > 1) => uiLog[i - 1][1] = "end"

C10_Witness ==
    /\ Includes(finished, "uitools")
    /\ answers.uiTools = "complete-suite"
    /\ Len(uiLog) = 6

-----------------------------------------------------------------------------
(* Properties of the framework setup services (SpecFw) *)

FrameworkNames == {"Express + tRPC", "Next.js", "Vite", "Astro"}

\* C1: setup(context) never throws; when a step raised an error that is not
\* tolerated it returns success = false with the message 'Failed to setup
\* <framework>: <cause>', and it returns success = true only when no such
\* error was raised.
C1_SetupNeverThrows ==
    /\ fwPc \in {"called", "try", "catch", "returned"}
    /\ fwPc = "returned" =>
          /\ result.success <=> failure = NoError
          /\ ~result.success =>
                /\ Len(result.message) > 3
                /\ result.message[1] = "Failed to setup "
                /\ result.message[2] \in FrameworkNames
                /\ result.message[2] = FrameworkName(service)
                /\ SubSeq(result.message, 3, Len(result.message)) = <<": ">> \o failure
    /\ failure # NoError => fwPc \in {"catch", "returned"}

C1_Witness ==
    /\ fwPc = "returned"
    /\ ~result.success
    /\ service = "vite"
    /\ files # {}
    /\ procs # {}

\* C4: every child process spawned during setup was given a timeout.
C4_EveryProcessHasTimeout ==
    \A p \in procs : p.timeout # NoTimeout

-----------------------------------------------------------------------------
(* Properties of the CLI process (SpecCLI) *)

\* C7: once the run has failed (runCLI rejected, main rejected, an unhandled
\* rejection or an uncaught exception occurred) the process never exits with
\* status 0: when it has exited, its status is 1.
C7_FailureExitsWithOne ==
    runFailed # "none" =>
        /\ exitCode # 0
        /\ cliPc = "exited" => exitCode = 1

C7_Witness ==
    /\ cliPc = "exited"
    /\ runFailed = "runCLI"
    /\ exitCode = 1
    /\ runSteps >= 1

-----------------------------------------------------------------------------
(* Properties of the workspace root (SpecMono) *)

\* the files setupUILibrary writes itself, relative to the library directory
LibraryFiles ==
    {<<"components.json">>, <<"src", "index.ts">>, <<"package.json">>}

\* C9: when shadcn/ui is selected and setupUILibrary has returned success,
\* the library's files are below packages/ui, whatever the monorepo tool.
C9_LibraryAtPackagesUi ==
    (libPc = "returned" /\ answers.useShadcn /\ libResult.success) =>
        \A rel \in LibraryFiles :
            \E f \in files : f.path = <<"packages", "ui">> \o rel

-----------------------------------------------------------------------------
(* Properties of setupDatabase called on its own (SpecDb) *)

DatabaseSkipped ==
    answers.ormDatabase = "none" \/ answers.databaseProvider = "none"

\* C11: when ormDatabase or databaseProvider is 'none', setupDatabase
\* returns at once without error: the step that runs its guard resolves the
\* call, spawns no install and leaves every file, .env.example and the
\* scripts as they were.
C11_DatabaseSkip ==
    [][(pc = "await" /\ stage = "db:check" /\ DatabaseSkipped) =>
          /\ stage' = "resolved"
          /\ failure' = NoError
          /\ procs' = procs
          /\ files' = files
          /\ envExample' = envExample
          /\ scripts' = scripts]_vars

C11_Witness ==
    /\ stage = "resolved"
    /\ answers.ormDatabase = "prisma"
    /\ answers.databaseProvider = "none"
    /\ envExample = [exists |-> TRUE, content |-> <<"env:clerk">>]
    /\ procs = {}

\* the functions setupMonorepo calls for a tool, in call order
ExpectedCalls(monorepoTool) ==
    CASE monorepoTool = "turbo" -> <<"setupTurboRepo">>
      [] monorepoTool = "nx" ->
            <<"setupNx", "setupNxWorkspaceLibraries", "generateNxWorkspaceConfig">>
      [] monorepoTool = "none" -> <<"setupNpmWorkspaces">>
      [] OTHER -> <<>>

\* C12: setupMonorepo calls only the functions of the selected tool, in
\* order, each after every call of the previous one succeeded; it resolves
\* only for turbo, nx and none and then has called all of them; when it
\* rejects, the error is 'Failed to setup <tool>: <cause>' and the function
\* that failed is the last one called.
C12_MonorepoDispatch ==
    /\ Len(called) <= Len(ExpectedCalls(answers.monorepoTool))
    /\ called = SubSeq(ExpectedCalls(answers.monorepoTool), 1, Len(called))
    /\ Includes(called, "setupNxWorkspaceLibraries") => monoIdx > Len(SetupNx)
    /\ Includes(called, "generateNxWorkspaceConfig") =>
          monoIdx > Len(SetupNx) + Len(SetupNxWorkspaceLibraries)
    /\ monoPc = "resolved" =>
          /\ answers.monorepoTool \in {"turbo", "nx", "none"}
          /\ called = ExpectedCalls(answers.monorepoTool)
          /\ failure = NoError
    /\ (answers.monorepoTool \notin {"turbo", "nx", "none"} /\ monoPc # "start") =>
          monoPc = "rejected"
    /\ monoPc = "rejected" =>
          /\ Len(failure) > 3
          /\ SubSeq(failure, 1, 3) = <<"Failed to setup ", answers.monorepoTool, ": ">>
          /\ called # <<>> => called[Len(called)] = MonoSteps(answers)[monoIdx].fn

C12_Witness ==
    /\ monoPc = "rejected"
    /\ answers.monorepoTool = "nx"
    /\ called = <<"setupNx", "setupNxWorkspaceLibraries">>

\* C13: once setupMonorepo has resolved, the project root holds a .gitignore
\* and its content is the one createProjectGitignore wrote, for every tool.
C13_RootGitignoreIsProjects ==
    monoPc = "resolved" =>
        /\ \E f \in files : f.path = <<".gitignore">>
        /\ \A f \in files :
              f.path = <<".gitignore">> => f.by = "createProjectGitignore"

C13_Witness ==
    /\ monoPc = "resolved"
    /\ answers.monorepoTool = "nx"
    /\ File(<<".gitignore">>, "createProjectGitignore") \in files
    /\ File(<<"nx.json">>, "create-nx-workspace@latest") \in files

\* C14: once setupMonorepo has resolved for turbo (setupTurboRepo
\* succeeded), the apps and packages directories exist and nothing that
\* create-turbo generated is left inside them.
C14_TurboExamplesRemoved ==
    (monoPc = "resolved" /\ answers.monorepoTool = "turbo") =>
        /\ \E f \in files : f.path = <<"apps">>
        /\ \E f \in files : f.path = <<"packages">>
        /\ \A f \in files :
              (Len(f.path) > 1 /\ (Under(<<"apps">>, f.path) \/ Under(<<"packages">>, f.path)))
                 => f.by # "create-turbo@latest"

-----------------------------------------------------------------------------
(* Properties of the updateEnvironmentWith* functions (Spec) *)

\* the step is a call of updateEnvironmentWith* that returns normally
EnvUpdateReturns ==
    \/ stage = "auth:env" /\ stage' = "resolved"
    \/ stage = "rt:env" /\ stage' = "resolved"
    \/ stage = "figma" /\ uiLog' = Append(uiLog, <<"end", "figma">>)

\* the block the function called at the current stage writes
EnvBlockAtStage ==
    CASE stage = "auth:env" -> AuthEnvBlock(answers)
      [] stage = "rt:env" -> RealtimeEnvBlock(answers)
      [] OTHER -> "env:figma"

PreviousEnvContent == IF envExample.exists THEN envExample.content ELSE <<>>

-----------------------------------------------------------------------------
(* Properties of the generated CI workflow and test scripts (Spec) *)

HasScript(name) == \E s \in scripts : s[1] = name

\* C16: after a run that generated ci.yml, every test script a step of the
\* workflow runs is defined in package.json: 'Run unit tests' goes with a
\* 'test' script and 'Run e2e tests' with a 'test:e2e' script.
C16_WorkflowAgreesWithScripts ==
    (pc = "returned" /\ Includes(finished, "testing") /\ ciWorkflow # <<>>) =>
        /\ Includes(ciWorkflow, "Run unit tests") => HasScript("test")
        /\ Includes(ciWorkflow, "Run e2e tests") => HasScript("test:e2e")

-----------------------------------------------------------------------------
(* Properties of updatePackageJsonScripts (SpecTesting) *)

\* the step is updatePackageJsonScripts writing package.json
ScriptsWritten ==
    stage = "testing:tool" /\ stage' = "resolved" /\ scripts' # scripts

CombinedSelected ==
    Len(answers.testingTools) > 1 /\ ~Includes(answers.testingTools, "none")

TestAllOf(s) == {v \in {t[2] : t \in s} : <<"test:all", v>> \in s}

-----------------------------------------------------------------------------
(* Properties of setupUILibrary (SpecMono) *)

\* index of the last `shadcn add` call among the steps of setupUILibrary
LastAddIndex ==
    Len(CreateUILibraryStructure(<<>>)) + Len(SetupShadcnInLibrary(<<>>))

ComponentFile(a, c) ==
    File(GetLibraryPath(a.monorepoTool) \o <<"src", "components", "ui", c>>, "shadcn add")

LibraryWriters ==
    {"setupShadcnInLibrary", "setupLibraryExports", "setupLibraryPackageJson",
     "createUILibraryGitignore", "shadcn add"}

\* C18: setupUILibrary never throws. The four basic components are attempted
\* once each, in order, whatever happened to the earlier ones, and a failed
\* `shadcn add` never makes the result a failure; the result is success =
\* false exactly for a failed directory creation, file write or `shadcn
\* init`, so a success has every file written; with useShadcn false it
\* returns success = true having written nothing and spawned nothing.
C18_ComponentFailuresTolerated ==
    /\ libPc # "start" => failure = NoError
    /\ Len(attempted) <= Len(BasicComponents)
    /\ attempted = SubSeq(BasicComponents, 1, Len(attempted))
    /\ libIdx > LastAddIndex => attempted = BasicComponents
    /\ (libPc = "returned" /\ answers.useShadcn /\ libResult.success) =>
          /\ attempted = BasicComponents
          /\ \A i \in 1..Len(LibSteps(answers)) :
                LibSteps(answers)[i].kind \in {"write", "mkdir"} =>
                    \E f \in files : f.path = LibSteps(answers)[i].path
          /\ Proc("npx", <<"shadcn@latest", "init">>, NoTimeout) \in procs
    /\ (libPc = "returned" /\ ~libResult.success) =>
          /\ answers.useShadcn
          /\ libResult.message[1] = "Could not setup shadcn/ui library: "
          /\ LibSteps(answers)[libIdx].kind \in {"mkdir", "write", "init"}
    /\ (libPc = "returned" /\ ~answers.useShadcn) =>
          /\ libResult.success
          /\ attempted = <<>>
          /\ \A f \in files : f.by \notin LibraryWriters
          /\ \A p \in procs : p.cmd # "npx"

C18_Witness ==
    /\ libPc = "returned"
    /\ libResult.success
    /\ attempted = BasicComponents
    /\ ComponentFile(answers, "button") \notin files
    /\ ComponentFile(answers, "card") \in files
    /\ ComponentFile(answers, "input") \notin files

\* the component modules src/index.ts re-exports (setupLibraryExports)
ExportedComponents == {"button", "card", "input", "label"}

\* C19: whenever setupUILibrary has returned success = true with shadcn/ui
\* selected, every component module the library's src/index.ts re-exports
\* was installed by `shadcn add`.
C19_ExportsAreInstalled ==
    (libPc = "returned" /\ answers.useShadcn /\ libResult.success) =>
        \A c \in ExportedComponents :
            (\E f \in files :
                f.path = GetLibraryPath(answers.monorepoTool) \o <<"src", "index.ts">>)
            => ComponentFile(answers, c) \in files

====
